---- MODULE Spec2Model ----
(***************************************************************************)
(* Model of the serialization and routing layer of Rest-Shop               *)
(* (restshop/serializers.py, restshop/urls.py).                            *)
(*                                                                         *)
(* Four specifications share one set of variables:                         *)
(*   SpecAccounts  UserSerializer / SellerSerializer account creation,     *)
(*                 one database statement per step, autocommit             *)
(*   SpecCatalog   ProductListSerializer / ProductSerializer               *)
(*   SpecOrders    CartUnitSerializer / OrderUnitSerializer                *)
(*   SpecRoutes    evaluation of the urls module                           *)
(* A specification leaves the variables of the other three untouched.      *)
(***************************************************************************)
EXTENDS Integers, Sequences, FiniteSets, TLC

VARIABLES
    \* ---- accounts (auth_user, auth_group, their M2M tables, Seller) ----
    users,          \* auth_user: user id -> [email, username, password]
    groups,         \* auth_group rows: set of [id, name]
    userGroups,     \* auth_user_groups rows: set of <<user id, group id>>
    groupPerms,     \* auth_group_permissions rows: set of <<group id, codename>>
    perms,          \* auth_permission: codenames present in this configuration
    sellers,        \* Seller rows: set of [user, name, address]
    pc,             \* request -> the statement it executes next
    req,            \* request -> the data the serializer was given (kind: which
                    \* serializer; in_use: the email belonged to an account then)
    loc,            \* request -> [group, i]: locals of get_staff_group
    result,         \* request -> outcome of the request
    \* ---- catalog and orders ----
    units,          \* Unit rows in pk order: [id, sku, product, price, num_in_stock]
    images,         \* UnitImage rows in pk order: [id, unit, is_main]
    orderunits,     \* OrderUnit rows: [id, unit, quantity, status, unit_price]
    resp,           \* the representation / validation outcome last produced
    \* ---- route table ----
    fs,             \* directory entry name -> kind of entry under API_DIR
    rpc,            \* position in the evaluation of the urls module
    entities,       \* module-level list `entities`
    urlpatterns,    \* module-level list `urlpatterns` (while being built, too)
    rerr,           \* the exception that ended the module's evaluation
    served          \* number of requests resolved against urlpatterns

accVars   == <<users, groups, userGroups, groupPerms, perms, sellers, pc, req, loc, result>>
shopVars  == <<units, images, orderunits, resp>>
routeVars == <<fs, rpc, entities, urlpatterns, rerr, served>>
vars      == <<accVars, shopVars, routeVars>>

None == "None"

(***************************************************************************)
(* ACCOUNTS                                                                *)
(***************************************************************************)

\* Bound: number of account-creation requests in flight over a run.
NumRequests == 2

Requests == 1..NumRequests

\* Emails a request may carry.
Emails == {"a@x", "b@x"}

\* The two creation paths.
Kinds == {"user", "seller"}

\* '{}_{}'.format(permission, content_type): a codename is the pair.
codename(permission, content_type) == <<permission, content_type>>

all_permissions == <<"add", "change", "delete">>

\* content_types with the 'order' entry left out.
content_types_without_order ==
    << [ct |-> "unit",          ps |-> all_permissions],
       [ct |-> "product",       ps |-> all_permissions],
       [ct |-> "unitimage",     ps |-> all_permissions],
       [ct |-> "orderunit",     ps |-> all_permissions],
       [ct |-> "property",      ps |-> <<"add">>],
       [ct |-> "propertyvalue", ps |-> <<"add">>] >>

\* The content_types dict of get_staff_group, in its written order.
content_types ==
    << [ct |-> "unit",          ps |-> all_permissions],
       [ct |-> "product",       ps |-> all_permissions],
       [ct |-> "unitimage",     ps |-> all_permissions],
       [ct |-> "orderunit",     ps |-> all_permissions],
       [ct |-> "order",         ps |-> <<"change">>],
       [ct |-> "property",      ps |-> <<"add">>],
       [ct |-> "propertyvalue", ps |-> <<"add">>] >>

\* The (content_type, permission) pairs in the order the nested loops visit them.
RECURSIVE LoopOrder(_)
LoopOrder(cts) ==
    IF cts = <<>> THEN <<>>
    ELSE [k \in 1..Len(Head(cts).ps) |-> codename(Head(cts).ps[k], Head(cts).ct)]
         \o LoopOrder(Tail(cts))

StaffCodenames == LoopOrder(content_types)

\* Codenames that a configuration may lack (the first the loop asks for, and
\* one in the middle of it); every other codename is always present.
MissingCandidates == {codename("add", "unit"), codename("change", "order")}

AllCodenames == {StaffCodenames[k] : k \in 1..Len(StaffCodenames)}

\* The variables of the accounts, of the shop and of the route table when the
\* specification at hand is about another part.
AccountsIdle ==
    /\ users = <<>> /\ groups = {} /\ userGroups = {} /\ groupPerms = {}
    /\ perms = {} /\ sellers = {}
    /\ pc = <<>> /\ req = <<>> /\ loc = <<>> /\ result = <<>>

ShopIdle == units = <<>> /\ images = <<>> /\ orderunits = <<>> /\ resp = [kind |-> None]

RoutesIdle ==
    /\ fs = <<>> /\ rpc = "idle" /\ entities = <<>> /\ urlpatterns = <<>>
    /\ rerr = None /\ served = 0

NoResult == [error |-> None, field |-> None, at |-> None]

InitAccounts ==
    /\ users = <<>>
    /\ groups = {}
    /\ userGroups = {}
    /\ groupPerms = {}
    /\ \E missing \in SUBSET MissingCandidates : perms = AllCodenames \ missing
    /\ sellers = {}
    /\ pc = [p \in Requests |-> "is_valid"]
    /\ req = [p \in Requests |-> [kind |-> None, email |-> None, password |-> None,
                                   name |-> None, address |-> None, in_use |-> FALSE]]
    /\ loc = [p \in Requests |-> [group |-> 0, i |-> 0]]
    /\ result = [p \in Requests |-> NoResult]
    /\ ShopIdle
    /\ RoutesIdle

\* make_password: a one-way salted hash of the raw password.
make_password(raw) == <<"pbkdf2_sha256", "salt", raw>>

SetPc(p, l) == pc' = [pc EXCEPT ![p] = l]

\* An unhandled exception or a validation error ends the request.
Fail(p, err, fld, where) ==
    /\ pc' = [pc EXCEPT ![p] = "failed"]
    /\ result' = [result EXCEPT ![p] = [error |-> err, field |-> fld, at |-> where]]

\* UniqueValidator(queryset=User.objects.all()) on UserSerializer's email field.
EmailTaken(email) == \E u \in DOMAIN users : users[u].email = email


\* The email validators of the serializer class of this kind: UserSerializer
\* declares the UniqueValidator in extra_kwargs, SellerSerializer declares none
\* (the model's email column is not unique, so none is derived either).
EmailFieldValid(kind, email) == kind = "user" => ~EmailTaken(email)

\* serializer.is_valid() on the submitted data.
IsValid(p) ==
    /\ pc[p] = "is_valid"
    /\ \E kind \in Kinds, email \in Emails :
        /\ req' = [req EXCEPT ![p] = [kind |-> kind, email |-> email,
                                      password |-> "pw", name |-> "shop", address |-> "street",
                                      in_use |-> EmailTaken(email)]]
        /\ IF EmailFieldValid(kind, email)
           THEN SetPc(p, "create_user") /\ UNCHANGED result
           ELSE Fail(p, "ValidationError", "email", "is_valid")
    /\ UNCHANGED <<users, groups, userGroups, groupPerms, perms, sellers, loc>>
    /\ UNCHANGED <<shopVars, routeVars>>

\* The unique constraint of auth_user.username.
UsernameTaken(username) == \E u \in DOMAIN users : users[u].username = username

\* User.objects.create(email=..., username=email), first statement of both create().
CreateUser(p) ==
    /\ pc[p] = "create_user"
    /\ IF UsernameTaken(req[p].email)
       THEN /\ Fail(p, "IntegrityError", None, "User.objects.create")
            /\ UNCHANGED users
       ELSE /\ users' = [u \in DOMAIN users \cup {p} |->
                            IF u = p
                            THEN [email |-> req[p].email, username |-> req[p].email,
                                  password |-> ""]
                            ELSE users[u]]
            /\ SetPc(p, IF req[p].kind = "seller" THEN "get_group" ELSE "save")
            /\ UNCHANGED result
    /\ UNCHANGED <<groups, userGroups, groupPerms, perms, sellers, req, loc>>
    /\ UNCHANGED <<shopVars, routeVars>>

StaffRows == {g \in groups : g.name = "Staff"}

\* Group.objects.get(name='Staff') in get_staff_group.
GetGroup(p) ==
    /\ pc[p] = "get_group"
    /\ IF Cardinality(StaffRows) = 1
       THEN /\ loc' = [loc EXCEPT ![p].group = (CHOOSE g \in StaffRows : TRUE).id]
            /\ SetPc(p, "groups_add")
            /\ UNCHANGED result
       ELSE IF StaffRows = {}
       THEN /\ SetPc(p, "create_group")
            /\ UNCHANGED <<loc, result>>
       ELSE /\ Fail(p, "MultipleObjectsReturned", None, "Group.objects.get")
            /\ UNCHANGED loc
    /\ UNCHANGED <<users, groups, userGroups, groupPerms, perms, sellers, req>>
    /\ UNCHANGED <<shopVars, routeVars>>

\* The unique constraint of auth_group.name.
GroupNameTaken(name) == \E g \in groups : g.name = name

\* Group.objects.create(name='Staff') in the except branch of get_staff_group.
CreateGroup(p) ==
    /\ pc[p] = "create_group"
    /\ IF GroupNameTaken("Staff")
       THEN /\ Fail(p, "IntegrityError", None, "Group.objects.create")
            /\ UNCHANGED <<groups, loc>>
       ELSE /\ groups' = groups \cup {[id |-> p, name |-> "Staff"]}
            /\ loc' = [loc EXCEPT ![p] = [group |-> p, i |-> 1]]
            /\ SetPc(p, IF Len(StaffCodenames) = 0 THEN "groups_add" ELSE "add_perm")
            /\ UNCHANGED result
    /\ UNCHANGED <<users, userGroups, groupPerms, perms, sellers, req>>
    /\ UNCHANGED <<shopVars, routeVars>>

\* One pass of the inner loop body of get_staff_group:
\* Permission.objects.get(codename=codename); group.permissions.add(permission).
AddPermission(p) ==
    /\ pc[p] = "add_perm"
    /\ LET c == StaffCodenames[loc[p].i] IN
       IF c \notin perms
       THEN /\ Fail(p, "DoesNotExist", None, "Permission.objects.get")
            /\ UNCHANGED <<groupPerms, loc>>
       ELSE /\ groupPerms' = groupPerms \cup {<<loc[p].group, c>>}
            /\ loc' = [loc EXCEPT ![p].i = @ + 1]
            /\ SetPc(p, IF loc[p].i = Len(StaffCodenames) THEN "groups_add" ELSE "add_perm")
            /\ UNCHANGED result
    /\ UNCHANGED <<users, groups, userGroups, perms, sellers, req>>
    /\ UNCHANGED <<shopVars, routeVars>>

\* user.groups.add(staff_group) in SellerSerializer.create.
GroupsAdd(p) ==
    /\ pc[p] = "groups_add"
    /\ userGroups' = userGroups \cup {<<p, loc[p].group>>}
    /\ SetPc(p, "save")
    /\ UNCHANGED <<users, groups, groupPerms, perms, sellers, req, loc, result>>
    /\ UNCHANGED <<shopVars, routeVars>>

\* user.set_password(...); user.save() in both create().
SavePassword(p) ==
    /\ pc[p] = "save"
    /\ users' = [users EXCEPT ![p].password = make_password(req[p].password)]
    /\ SetPc(p, IF req[p].kind = "seller" THEN "create_seller" ELSE "done")
    /\ UNCHANGED <<groups, userGroups, groupPerms, perms, sellers, req, loc, result>>
    /\ UNCHANGED <<shopVars, routeVars>>

\* Seller.objects.create(user=user, name=..., address=...); return user.
CreateSeller(p) ==
    /\ pc[p] = "create_seller"
    /\ sellers' = sellers \cup {[user |-> p, name |-> req[p].name, address |-> req[p].address]}
    /\ SetPc(p, "done")
    /\ UNCHANGED <<users, groups, userGroups, groupPerms, perms, req, loc, result>>
    /\ UNCHANGED <<shopVars, routeVars>>

NextAccounts ==
    \/ \E p \in Requests : IsValid(p)
    \/ \E p \in Requests : CreateUser(p)
    \/ \E p \in Requests : GetGroup(p)
    \/ \E p \in Requests : CreateGroup(p)
    \/ \E p \in Requests : AddPermission(p)
    \/ \E p \in Requests : GroupsAdd(p)
    \/ \E p \in Requests : SavePassword(p)
    \/ \E p \in Requests : CreateSeller(p)

(* ---- claims about account creation ---- *)

\* The fixed permission set as the claims state it.
FullStaffPermissions ==
    ({"add", "change", "delete"} \X {"unit", "product", "unitimage", "orderunit"})
    \cup {<<"change", "order">>, <<"add", "property">>, <<"add", "propertyvalue">>}

PermissionsOf(g) == {c \in AllCodenames \cup FullStaffPermissions : <<g, c>> \in groupPerms}

SellerCalls == {p \in Requests : req[p].kind = "seller"}

SucceededSellers == {p \in SellerCalls : pc[p] = "done"}

\* C1: once two or more SellerSerializer.create calls have run, all of them
\* successfully, from a state without a "Staff" group, exactly one group named
\* "Staff" exists, it carries the full fixed permission set, and every created
\* seller account is a member of it.
C1_StaffGroupIdempotent ==
    (SellerCalls = SucceededSellers /\ Cardinality(SucceededSellers) >= 2)
    => /\ Cardinality(StaffRows) = 1
       /\ \A g \in StaffRows :
            /\ PermissionsOf(g.id) = FullStaffPermissions
            /\ \A p \in SucceededSellers : <<p, g.id>> \in userGroups

C1_Witness ==
    /\ Cardinality(SucceededSellers) >= 2
    /\ SellerCalls = SucceededSellers
    /\ \E g \in StaffRows : \A p \in SucceededSellers : <<p, g.id>> \in userGroups
    /\ Cardinality(sellers) >= 2

\* C2: under interleaved seller signups no interleaving produces two "Staff"
\* groups, no signup fails because another signup created the group first, and
\* no signup finishes attached to a "Staff" group that never receives the full
\* permission set (one that lacks permissions while nobody is still adding them).
C2_ConcurrentSignupsIdempotent ==
    /\ Cardinality(StaffRows) <= 1
    /\ \A p \in Requests :
        ~(pc[p] = "failed" /\ result[p].at = "Group.objects.create")
    /\ \A p \in SucceededSellers : \A g \in StaffRows :
        <<p, g.id>> \in userGroups
        => \/ PermissionsOf(g.id) = FullStaffPermissions
           \/ \E q \in Requests : pc[q] = "add_perm" /\ loc[q].group = g.id

\* C3: when an expected permission codename is missing, every seller account
\* creation fails (none ever succeeds in that configuration), and a failed
\* creation leaves behind no account, no Seller record and no
\* partially-permissioned "Staff" group.
C3_BootstrapFailureFatal ==
    /\ ~(FullStaffPermissions \subseteq perms) => SucceededSellers = {}
    /\ \A p \in SellerCalls :
        pc[p] = "failed"
        => /\ p \notin DOMAIN users
           /\ \A s \in sellers : s.user # p
           /\ \A g \in StaffRows : PermissionsOf(g.id) = FullStaffPermissions

\* C9: on both creation paths no two accounts share an email, every account's
\* username equals its email, and a creation refused because its email is in
\* use is refused as a validation error attributed to the email field.
C9_EmailUniqueBothPaths ==
    /\ \A u, v \in DOMAIN users : u # v => users[u].email # users[v].email
    /\ \A u \in DOMAIN users : users[u].username = users[u].email
    /\ \A p \in Requests :
        (req[p].in_use /\ pc[p] \in {"failed", "done"})
        => /\ pc[p] = "failed"
           /\ result[p].error = "ValidationError"
           /\ result[p].field = "email"

SpecAccounts == InitAccounts /\ [][NextAccounts]_vars

(***************************************************************************)
(* CATALOG: ProductListSerializer, ProductSerializer, UnitSerializer       *)
(***************************************************************************)

\* Bounds: rows of the Unit and UnitImage tables.
MaxUnits == 3
MaxImages == 2

Products == {1, 2}
Prices == {10, 20}

\* A nullable value: {} is null, {v} is the value v.
Null == {}
Some(v) == {v}

\* Columns read through the serializers but never compared by them.
Title(p) == <<"title", p>>
Description(p) == <<"description", p>>
Sku(id) == <<"sku", id>>
\* image.image.url of a UnitImage row.
Url(image) == <<"/media/", image.id>>

\* product.tag_set and unit.value_set (with each value's property), as stored.
tag_set(p) == IF p = 1 THEN <<[name |-> "new"], [name |-> "sale"]>> ELSE <<>>
value_set(unit) ==
    IF unit.id = 1 THEN <<[id |-> 1, value |-> "red", property |-> [name |-> "color"]]>>
    ELSE <<>>

NoResponse == [kind |-> None]

\* obj.unit_set of a Product, in pk order.
unit_set(p) == SelectSeq(units, LAMBDA u : u.product = p)

\* obj.unitimage_set of a Unit, in pk order.
unitimage_set(unit) == SelectSeq(images, LAMBDA i : i.unit = unit.id)

\* Min('price') / Max('price') over a queryset: null over no rows.
RECURSIVE AggregateMin(_)
AggregateMin(rows) ==
    IF rows = <<>> THEN Null
    ELSE LET rest == AggregateMin(Tail(rows)) IN
         IF rest = Null \/ \A r \in rest : Head(rows).price <= r
         THEN Some(Head(rows).price) ELSE rest

RECURSIVE AggregateMax(_)
AggregateMax(rows) ==
    IF rows = <<>> THEN Null
    ELSE LET rest == AggregateMax(Tail(rows)) IN
         IF rest = Null \/ \A r \in rest : Head(rows).price >= r
         THEN Some(Head(rows).price) ELSE rest

\* Unit.objects instead of obj.unit_set: the units of every product.
unit_set_of_all_products(p) == units

\* The queryset get_prices aggregates over.
PricedUnits(p) == unit_set(p)

\* ProductListSerializer.get_prices
get_prices(p) ==
    LET prices == [max |-> AggregateMax(PricedUnits(p)), min |-> AggregateMin(PricedUnits(p))]
    IN [min |-> prices.min, max |-> prices.max]

\* queryset.order_by('-is_main').first(): a row with the greatest is_main; the
\* database picks among equals.  The set of rows it may return.
FirstByIsMainDesc(rows) ==
    LET all == {rows[k] : k \in 1..Len(rows)}
        mains == {i \in all : i.is_main}
    IN IF mains # {} THEN mains ELSE all

\* order_by('is_main').first(): the flag sorted the wrong way round.
FirstByIsMainAsc(rows) ==
    LET all == {rows[k] : k \in 1..Len(rows)}
        plain == {i \in all : ~i.is_main}
    IN IF plain # {} THEN plain ELSE all

\* The image get_image takes from the unit it settled on.
PreferredImages(rows) == FirstByIsMainDesc(rows)

\* obj.unit_set.filter(unitimage__isnull=False).first(): the first unit, by pk,
\* that has an image; null when there is none.
FirstUnitWithImage(p) ==
    LET withImage == SelectSeq(unit_set(p), LAMBDA u : unitimage_set(u) # <<>>)
    IN IF withImage = <<>> THEN Null ELSE Some(Head(withImage))

\* ProductListSerializer.get_image: the values it may return.
get_image(p) ==
    LET unit == FirstUnitWithImage(p) IN
    IF unit = Null THEN {Null}
    ELSE UNION {
        IF unitimage_set(u) = <<>> THEN {Null}
        ELSE {Some(Url(image)) : image \in PreferredImages(unitimage_set(u))}
        : u \in unit }

\* UnitSerializer.get_properties / UnitForOrderDetail.get_properties
get_properties(unit) ==
    [k \in 1..Len(value_set(unit)) |->
        [name |-> value_set(unit)[k].property.name, value |-> value_set(unit)[k].value]]

\* UnitSerializer.get_images
get_images(unit) ==
    LET imgs == unitimage_set(unit) IN
    IF imgs # <<>> THEN [k \in 1..Len(imgs) |-> Url(imgs[k])] ELSE <<>>

\* UnitSerializer's representation of a Unit.
UnitRepr(unit) ==
    [sku |-> unit.sku, price |-> unit.price, properties |-> get_properties(unit),
     images |-> get_images(unit), num_in_stock |-> unit.num_in_stock]

\* TagSerializer.to_representation over tag_set
TagsRepr(p) == [k \in 1..Len(tag_set(p)) |-> tag_set(p)[k].name]

\* Meta.fields of the two product serializers.
ProductListFields == {"id", "title", "tags", "prices", "image"}

ProductFieldsWithListFields == {"id", "title", "tags", "prices", "image", "description", "units"}

ProductFields == {"id", "title", "tags", "description", "units"}

\* The value a product serializer gives a field (model column, declared
\* field or method field); image is the value get_image returned.
FieldValue(p, f, image) ==
    CASE f = "id" -> p
      [] f = "title" -> Title(p)
      [] f = "description" -> Description(p)
      [] f = "tags" -> TagsRepr(p)
      [] f = "prices" -> get_prices(p)
      [] f = "image" -> image
      [] f = "units" -> [k \in 1..Len(unit_set(p)) |-> UnitRepr(unit_set(p)[k])]

\* What get_image may return when the serializer has an image field; the
\* method is not called for a serializer without one.
ImageOutcomes(p, fields) == IF "image" \in fields THEN get_image(p) ELSE {Null}

\* to_representation: one entry per name in Meta.fields.
Representation(p, fields, image) == [f \in fields |-> FieldValue(p, f, image)]

InitCatalog ==
    /\ units = <<>>
    /\ images = <<>>
    /\ orderunits = <<>>
    /\ resp = NoResponse
    /\ AccountsIdle
    /\ RoutesIdle

\* A Unit row is stored; the pk is the next free one.
AddUnit(p, price) ==
    /\ Len(units) < MaxUnits
    /\ units' = Append(units, [id |-> Len(units) + 1, sku |-> Sku(Len(units) + 1),
                               product |-> p, price |-> price, num_in_stock |-> 1])
    /\ resp' = NoResponse
    /\ UNCHANGED <<images, orderunits, accVars, routeVars>>

\* A UnitImage row is stored for an existing unit.
AddImage(u, is_main) ==
    /\ Len(images) < MaxImages
    /\ u \in 1..Len(units)
    /\ images' = Append(images, [id |-> Len(images) + 1, unit |-> u, is_main |-> is_main])
    /\ resp' = NoResponse
    /\ UNCHANGED <<units, orderunits, accVars, routeVars>>

\* ProductListSerializer(product).data
ListProduct(p) ==
    /\ \E image \in ImageOutcomes(p, ProductListFields) :
        resp' = [kind |-> "product_list", product |-> p,
                 data |-> Representation(p, ProductListFields, image)]
    /\ UNCHANGED <<units, images, orderunits, accVars, routeVars>>

\* ProductSerializer(product).data
DetailProduct(p) ==
    /\ \E image \in ImageOutcomes(p, ProductFields) :
        resp' = [kind |-> "product_detail", product |-> p,
                 data |-> Representation(p, ProductFields, image)]
    /\ UNCHANGED <<units, images, orderunits, accVars, routeVars>>

NextCatalog ==
    \/ \E p \in Products, price \in Prices : AddUnit(p, price)
    \/ \E u \in 1..MaxUnits, is_main \in BOOLEAN : AddImage(u, is_main)
    \/ \E p \in Products : ListProduct(p)
    \/ \E p \in Products : DetailProduct(p)

(* ---- claims about the product representations ---- *)

OwnUnits(p) == {units[k] : k \in {j \in 1..Len(units) : units[j].product = p}}

OwnImages(p) ==
    {images[k] : k \in {j \in 1..Len(images) : \E u \in OwnUnits(p) : images[j].unit = u.id}}

ImagesOfUnit(u) == {i \in OwnImages(u.product) : i.unit = u.id}

IsListOf(p) == resp.kind = "product_list" /\ resp.product = p

\* C8: prices.min and prices.max of the list representation are the least and
\* the greatest price among exactly the product's own units; they are equal
\* for a product with a single unit and both null for a product without units.
C8_PricesAreOwnMinMax ==
    \A p \in Products : IsListOf(p) =>
        LET own == {u.price : u \in OwnUnits(p)}
            got == resp.data.prices
        IN /\ own = {} => got.min = Null /\ got.max = Null
           /\ own # {} =>
                /\ \E lo \in own : got.min = Some(lo) /\ \A x \in own : lo <= x
                /\ \E hi \in own : got.max = Some(hi) /\ \A x \in own : hi >= x
           /\ Cardinality(OwnUnits(p)) = 1 => got.min = got.max /\ got.min # Null

\* Two own units with different prices while another product has a unit too.
C8_Witness ==
    \E p \in Products :
        /\ IsListOf(p)
        /\ Cardinality(OwnUnits(p)) = 2
        /\ resp.data.prices.min # resp.data.prices.max
        /\ OwnUnits(3 - p) # {}

\* C6 as stated: image is null without units or images; a main-flagged image
\* anywhere among the product's units' images is the one returned, whichever
\* unit carries it; without a main flag an existing image of the product is
\* returned.
C6_MainImageOfAnyUnit ==
    \A p \in Products : IsListOf(p) =>
        LET mains == {i \in OwnImages(p) : i.is_main} IN
        /\ OwnImages(p) = {} => resp.data.image = Null
        /\ mains # {} => \E i \in mains : resp.data.image = Some(Url(i))
        /\ (OwnImages(p) # {} /\ mains = {}) =>
                \E i \in OwnImages(p) : resp.data.image = Some(Url(i))

\* C6 amended: image is null without units or images; otherwise it is an
\* image of the first unit (by pk) that has images: a main-flagged one when
\* that unit has one, whatever the order of its other images, else any of its
\* images.
C6_MainImageOfFirstUnit ==
    \A p \in Products : IsListOf(p) =>
        /\ OwnImages(p) = {} => resp.data.image = Null
        /\ OwnImages(p) # {} =>
            \E u \in OwnUnits(p) :
                /\ ImagesOfUnit(u) # {}
                /\ \A v \in OwnUnits(p) : ImagesOfUnit(v) # {} => u.id <= v.id
                /\ LET mains == {i \in ImagesOfUnit(u) : i.is_main} IN
                   \E i \in (IF mains # {} THEN mains ELSE ImagesOfUnit(u)) :
                        resp.data.image = Some(Url(i))

\* The first unit with images has a plain image stored before its main one.
C6_Witness ==
    \E p \in Products :
        /\ IsListOf(p)
        /\ \E i, j \in OwnImages(p) :
            /\ i.unit = j.unit /\ i.id < j.id /\ ~i.is_main /\ j.is_main
            /\ resp.data.image = Some(Url(j))

\* C7 as stated: the detail representation has every list field (id, title,
\* tags, prices, image) plus description and units.
C7_DetailHasListFields ==
    resp.kind = "product_detail"
    => {"id", "title", "tags", "prices", "image", "description", "units"}
            \subseteq DOMAIN resp.data

\* C7 amended: the detail representation has exactly id, title, tags,
\* description and units: the list view's id, title and tags with the same
\* values, the description and one nested entry per unit of the product;
\* the list view's prices and image are not part of it.
C7_DetailFields ==
    \A p \in Products : (resp.kind = "product_detail" /\ resp.product = p) =>
        /\ DOMAIN resp.data = {"id", "title", "tags", "description", "units"}
        /\ \A image \in get_image(p), f \in {"id", "title", "tags"} :
                resp.data[f] = Representation(p, ProductListFields, image)[f]
        /\ resp.data["description"] = Description(p)
        /\ Len(resp.data["units"]) = Cardinality(OwnUnits(p))
        /\ {resp.data["units"][k].sku : k \in 1..Len(resp.data["units"])}
                = {u.sku : u \in OwnUnits(p)}

C7_Witness ==
    /\ resp.kind = "product_detail"
    /\ Len(resp.data["units"]) >= 2
    /\ OwnImages(resp.product) # {}

SpecCatalog == InitCatalog /\ [][NextCatalog]_vars


(***************************************************************************)
(* ORDERS: CartUnitSerializer, UnitForOrderDetail, OrderUnitSerializer,    *)
(* OrderDetailSerializer                                                   *)
(***************************************************************************)

\* Bounds: largest stock of a unit, and rows of the OrderUnit table.
MaxStock == 2
MaxOrderUnits == 2

\* skus a cart submission may carry: Sku(0) belongs to no unit.
SubmittedSkus == {Sku(0), Sku(1), Sku(2)}

\* quantity of an ordered line.
OrderQuantities == {1}

\* quantities a cart submission may carry; null when the key is omitted.
SubmittedQuantities == {Null} \cup {Some(q) : q \in 0..(MaxStock + 1)}

\* IntegerField(default=1, min_value=1)
QuantityDefault == 1
QuantityMinValue == 1

MsgMinValue == "Ensure this value is greater than or equal to 1."
MsgNoUnit == "Unit does not exist"
MsgNoStock == "There are not enough units in stock"

\* The one Order whose detail is served; its columns are never compared.
TheOrder == [id |-> 1, created_at |-> "t0", name |-> "n", address |-> "a", phone |-> "p"]

\* get_status_display(): the label of the status choice.
get_status_display(status) == IF status = "P" THEN "Pending" ELSE "Unknown"

InitOrders ==
    /\ \E price \in [1..2 -> Prices], stock \in [1..2 -> 0..MaxStock] :
        units = [id \in 1..2 |-> [id |-> id, sku |-> Sku(id), product |-> 1,
                                   price |-> price[id], num_in_stock |-> stock[id]]]
    /\ images = << [id |-> 1, unit |-> 1, is_main |-> FALSE],
                   [id |-> 2, unit |-> 1, is_main |-> TRUE] >>
    /\ orderunits = <<>>
    /\ resp = NoResponse
    /\ AccountsIdle
    /\ RoutesIdle

\* The quantity field of CartUnitSerializer: the default when omitted.
QuantityValue(submitted) ==
    IF submitted = Null THEN QuantityDefault ELSE CHOOSE q \in submitted : TRUE

\* min_value=1 on the quantity field.
QuantityFieldErrors(quantity) ==
    IF quantity < QuantityMinValue
    THEN {[field |-> "quantity", message |-> MsgMinValue]} ELSE {}

\* Unit.objects.get(sku=sku): the rows it matches.
UnitsBySku(sku) == {units[k] : k \in {j \in 1..Len(units) : units[j].sku = sku}}

\* `unit.num_in_stock <= quantity`: the comparison off by one.
StockBelowOrEqual(unit, quantity) == unit.num_in_stock <= quantity

\* The stock test of CartUnitSerializer.validate.
StockBelow(unit, quantity) == unit.num_in_stock < quantity

\* CartUnitSerializer.validate(data): the errors it raises (none: data is returned).
validate(sku, quantity) ==
    IF UnitsBySku(sku) = {}
    THEN {[field |-> "non_field_errors", message |-> MsgNoUnit]}
    ELSE LET unit == CHOOSE u \in UnitsBySku(sku) : TRUE IN
         IF StockBelow(unit, quantity)
         THEN {[field |-> "non_field_errors", message |-> MsgNoStock]}
         ELSE {}

\* Serializer.run_validation: the fields' own checks first; validate() runs
\* only on data whose fields are all valid.
run_validation(sku, submitted) ==
    LET quantity == QuantityValue(submitted)
        fieldErrors == QuantityFieldErrors(quantity)
    IN IF fieldErrors # {} THEN fieldErrors ELSE validate(sku, quantity)

\* CartUnitSerializer(data=...).is_valid()
ValidateCart(sku, submitted) ==
    /\ resp' = [kind |-> "cart", sku |-> sku, submitted |-> submitted,
                valid |-> run_validation(sku, submitted) = {},
                errors |-> run_validation(sku, submitted),
                data |-> IF run_validation(sku, submitted) = {}
                         THEN Some([sku |-> sku, quantity |-> QuantityValue(submitted)])
                         ELSE Null]
    /\ UNCHANGED <<units, images, orderunits, accVars, routeVars>>

\* The price column of a Unit is changed.
ChangePrice(u, price) ==
    /\ u \in 1..Len(units)
    /\ units[u].price # price
    /\ units' = [units EXCEPT ![u].price = price]
    /\ resp' = NoResponse
    /\ UNCHANGED <<images, orderunits, accVars, routeVars>>

\* An OrderUnit row is stored: unit_price is the unit's price at that moment.
CreateOrderUnit(u, quantity) ==
    /\ Len(orderunits) < MaxOrderUnits
    /\ u \in 1..Len(units)
    /\ orderunits' = Append(orderunits,
            [id |-> Len(orderunits) + 1, unit |-> u, quantity |-> quantity,
             status |-> "P", unit_price |-> units[u].price])
    /\ resp' = NoResponse
    /\ UNCHANGED <<units, images, accVars, routeVars>>

\* UnitForOrderDetail.get_image: the values it may return.
get_image_of_unit(unit) ==
    IF unitimage_set(unit) = <<>> THEN {Null}
    ELSE {Some(Url(image)) : image \in FirstByIsMainDesc(unitimage_set(unit))}

\* UnitForOrderDetail(unit).data; image is the value get_image returned.
UnitForOrderDetail(unit, image) ==
    [title |-> Title(unit.product), properties |-> get_properties(unit), image |-> image,
     product_id |-> unit.product, price |-> unit.price, sku |-> unit.sku]

\* get_unit without the override of data['price'].
get_unit_current_price(obj, image) == UnitForOrderDetail(units[obj.unit], image)

\* OrderUnitSerializer.get_unit
get_unit(obj, image) == [UnitForOrderDetail(units[obj.unit], image) EXCEPT !.price = obj.unit_price]

\* OrderUnitSerializer's representation of an OrderUnit.
OrderUnitRepr(obj, image) ==
    [quantity |-> obj.quantity, status |-> get_status_display(obj.status),
     unit |-> get_unit(obj, image)]

\* OrderDetailSerializer(order).data
OrderDetail ==
    /\ \E image \in [1..Len(orderunits) -> {Null} \cup {Some(Url(i)) : i \in {images[k] : k \in 1..Len(images)}}] :
        /\ \A k \in 1..Len(orderunits) : image[k] \in get_image_of_unit(units[orderunits[k].unit])
        /\ resp' = [kind |-> "order_detail",
                    data |-> [id |-> TheOrder.id, created_at |-> TheOrder.created_at,
                              name |-> TheOrder.name, address |-> TheOrder.address,
                              phone |-> TheOrder.phone,
                              units |-> [k \in 1..Len(orderunits) |->
                                            OrderUnitRepr(orderunits[k], image[k])]]]
    /\ UNCHANGED <<units, images, orderunits, accVars, routeVars>>

(* ---- claims about cart validation and order detail ---- *)

CartKnown == UnitsBySku(resp.sku) # {}

CartStock == (CHOOSE u \in UnitsBySku(resp.sku) : TRUE).num_in_stock

CartQuantity == IF resp.submitted = Null THEN 1 ELSE CHOOSE q \in resp.submitted : TRUE

CartMessages == {e.message : e \in resp.errors}

C5_HistoricalPrice ==
    resp.kind = "order_detail" =>
        /\ Len(resp.data.units) = Len(orderunits)
        /\ \A k \in 1..Len(orderunits) :
            /\ resp.data.units[k].unit.price = orderunits[k].unit_price
            /\ units[orderunits[k].unit].price # orderunits[k].unit_price
                    => resp.data.units[k].unit.price # units[orderunits[k].unit].price

\* An order detail produced after the price of an ordered unit has changed.
C5_Witness ==
    /\ resp.kind = "order_detail"
    /\ \E k \in 1..Len(orderunits) :
        /\ units[orderunits[k].unit].price # orderunits[k].unit_price
        /\ resp.data.units[k].unit.price = orderunits[k].unit_price

NextOrders ==
    \/ \E sku \in SubmittedSkus, submitted \in SubmittedQuantities : ValidateCart(sku, submitted)
    \/ \E u \in 1..2, price \in Prices : ChangePrice(u, price)
    \/ \E u \in 1..2, quantity \in OrderQuantities : CreateOrderUnit(u, quantity)
    \/ OrderDetail

SpecOrders == InitOrders /\ [][NextOrders]_vars


(***************************************************************************)
(* ROUTE TABLE: evaluation of the urls module when it is first imported    *)
(***************************************************************************)

\* Bound: requests resolved against the route table after it was built.
MaxServed == 2

\* Names an entry of join(BASE_DIR, API_DIR) may have.
Names == {"cart", "order", "__pycache__", "notes.txt"}

API_DIR == <<"restshop", "api">>

\* An entry of the directory: absent, a plain file, or a directory that may
\* hold a urls module and a views module.
EntryShapes(name) ==
    {[kind |-> "absent", urls |-> FALSE, views |-> FALSE],
     [kind |-> "file", urls |-> FALSE, views |-> FALSE]}
    \cup {[kind |-> "dir", urls |-> u, views |-> v] :
            u \in BOOLEAN, v \in IF name = "cart" THEN BOOLEAN ELSE {FALSE}}

InitRoutes ==
    /\ fs \in [Names -> UNION {EntryShapes(n) : n \in Names}]
    /\ \A n \in Names : fs[n] \in EntryShapes(n)
    /\ rpc = "import"
    /\ entities = <<>>
    /\ urlpatterns = <<>>
    /\ rerr = None
    /\ served = 0
    /\ AccountsIdle
    /\ ShopIdle

\* listdir(join(BASE_DIR, API_DIR)): the names present.
listdir == {n \in Names : fs[n].kind # "absent"}

\* isdir(join(BASE_DIR, API_DIR, directory))
isdir(directory) == fs[directory].kind = "dir"

\* The filter without the '__pycache__' exclusion.
IsDirectory(directory) == isdir(directory)

\* The condition of the `entities` comprehension.
IsEntity(directory) == isdir(directory) /\ directory # "__pycache__"

\* 'restshop.api.{}.urls'.format(entity)
UrlsModule(entity) == API_DIR \o <<entity, "urls">>

ViewsModule(entity) == API_DIR \o <<entity, "views">>

\* Whether importing the dotted module succeeds.
Importable(module) ==
    LET entity == module[3] IN
    /\ entity \in Names
    /\ fs[entity].kind = "dir"
    /\ IF module[4] = "urls" THEN fs[entity].urls ELSE fs[entity].views

\* All orders in which listdir may return a set of names.
Orderings(S) ==
    {o \in [1..Cardinality(S) -> S] : \A i, j \in 1..Cardinality(S) : i # j => o[i] # o[j]}

\* from restshop.api.cart.views import CartView
ImportCartView ==
    /\ rpc = "import"
    /\ IF Importable(ViewsModule("cart"))
       THEN rpc' = "entities" /\ UNCHANGED rerr
       ELSE /\ rpc' = "failed"
            /\ rerr' = [error |-> "ImportError", module |-> ViewsModule("cart")]
    /\ UNCHANGED <<fs, entities, urlpatterns, served, accVars, shopVars>>

\* entities = [directory for directory in listdir(...) if isdir(...) and ...]
ListEntities ==
    /\ rpc = "entities"
    /\ \E order \in Orderings(listdir) : entities' = SelectSeq(order, IsEntity)
    /\ rpc' = "urlpatterns"
    /\ UNCHANGED <<fs, urlpatterns, rerr, served, accVars, shopVars>>

\* One element of the urlpatterns comprehension:
\* url(r'^', include('restshop.api.{}.urls'.format(entity))); include imports
\* the module at once.  The name urlpatterns is bound after the last element.
Include ==
    /\ rpc = "urlpatterns"
    /\ IF Len(urlpatterns) = Len(entities)
       THEN rpc' = "ready" /\ UNCHANGED <<urlpatterns, rerr>>
       ELSE LET entity == entities[Len(urlpatterns) + 1] IN
            IF Importable(UrlsModule(entity))
            THEN /\ urlpatterns' = Append(urlpatterns,
                        [regex |-> "^", include |-> UrlsModule(entity)])
                 /\ UNCHANGED <<rpc, rerr>>
            ELSE /\ rpc' = "failed"
                 /\ rerr' = [error |-> "ImportError", module |-> UrlsModule(entity)]
                 /\ UNCHANGED urlpatterns
    /\ UNCHANGED <<fs, entities, served, accVars, shopVars>>

\* A request is resolved against the module's urlpatterns.
ServeRequest ==
    /\ rpc = "ready"
    /\ served < MaxServed
    /\ served' = served + 1
    /\ UNCHANGED <<fs, rpc, entities, urlpatterns, rerr, accVars, shopVars>>

(* ---- claim about the route table ---- *)

\* The immediate subdirectories other than '__pycache__', as the claim names them.
SubApplications == {n \in Names : fs[n].kind = "dir" /\ n # "__pycache__"}

\* C10: the route table holds exactly one include entry, under the root
\* prefix, per immediate subdirectory other than '__pycache__' (plain files
\* are no sub-applications); when such a directory lacks its route-table
\* module the evaluation ends in an error naming a module that is missing,
\* and a request is only ever served from the completely built table.
C10_RouteTable ==
    /\ rpc = "ready" =>
        /\ Len(urlpatterns) = Cardinality(SubApplications)
        /\ {urlpatterns[k].include : k \in 1..Len(urlpatterns)}
                = {<<"restshop", "api", n, "urls">> : n \in SubApplications}
        /\ \A k \in 1..Len(urlpatterns) : urlpatterns[k].regex = "^"
    /\ (\E n \in SubApplications : ~fs[n].urls) => rpc # "ready" /\ served = 0
    /\ rpc = "failed" =>
        /\ rerr.error = "ImportError"
        /\ \/ /\ rerr.module = <<"restshop", "api", "cart", "views">>
              /\ ~(fs["cart"].kind = "dir" /\ fs["cart"].views)
           \/ \E n \in SubApplications :
                rerr.module = <<"restshop", "api", n, "urls">> /\ ~fs[n].urls
    /\ served > 0 => rpc = "ready"

\* The evaluation failed on a sub-application without urls after another was
\* included, with a '__pycache__' directory and a plain file beside them.
C10_Witness ==
    /\ rpc = "failed"
    /\ Len(urlpatterns) >= 1
    /\ rerr.module[4] = "urls"
    /\ fs["__pycache__"].kind = "dir"
    /\ fs["notes.txt"].kind = "file"
    /\ served = 0

NextRoutes ==
    \/ ImportCartView
    \/ ListEntities
    \/ Include
    \/ ServeRequest

SpecRoutes == InitRoutes /\ [][NextRoutes]_vars


====
